---- MODULE Spec2Model ----
(***************************************************************************)
(* The Librarian's file catalog (server/librarian_server/file.py): the     *)
(* File, FileInstance and FileEvent tables, File.get_inferring_info        *)
(* ("resolve"), the File constructor and its validation ("register"),      *)
(* to_dict / from_dict, and the create_file_event and                      *)
(* locate_file_instance RPC endpoints, run by several workers that each    *)
(* hold their own db.session against one shared database.                  *)
(*                                                                         *)
(* Strings that the code inspects character by character (names, store     *)
(* paths, MD5 texts) are sequences of one-character strings.  Date-times   *)
(* are naive wall-clock values counted in clock ticks, TicksPerSec ticks   *)
(* to the second.                                                          *)
(***************************************************************************)
EXTENDS Integers, Sequences, FiniteSets, TLC

VARIABLES
    files,          \* rows of table "file"
    observations,   \* rows of table "observation"
    instances,      \* rows of table "file_instance"
    events,         \* rows of table "file_event"
    nextId,         \* next value of the file_event.id sequence
    pc,             \* pc[w]: where worker w stands in get_inferring_info
    args,           \* args[w]: the arguments and locals of w's running call
    sess,           \* sess[w]: Observation rows pending in w's db.session
    result,         \* result[w]: outcome of w's last finished call
    probes,         \* probes[w]: store probes made by w's current/last call
    now,            \* the UTC clock, in ticks
    calls           \* number of calls started so far

vars == <<files, observations, instances, events, nextId, pc, args, sess,
          result, probes, now, calls>>

----------------------------------------------------------------------------
(* Bounds of the model *)

\* calls made in all, clock ticks in all, FileEvent rows in all
MaxCalls == 2
MaxTicks == 2
MaxEvents == 1

\* clock ticks to the second: the sub-second resolution of utcnow (),
\* coarsened
TicksPerSec == 2

(* Program constants *)

\* width of File.md5, db.String (32)
Md5Len == 32

\* "The payload is limited to 512 bytes"
PayloadCap == 512

\* the workers of the catalog as a whole, and the callers that race in
\* get_inferring_info on one store path
Workers == {1, 2}
RaceWorkers == {1, 2, 3}
AllWorkers == Workers \cup RaceWorkers

----------------------------------------------------------------------------
(* Character sequences *)

Rep(c, n) == [i \in 1..n |-> c]

NameA == <<"a">>
NameB == <<"b">>
SlashName == <<"d", "/", "a">>

HasSlash(s) == \E i \in 1..Len(s) : s[i] = "/"

\* str.rfind ('/') + 1
RFindSlash1(p) ==
    IF HasSlash(p)
    THEN CHOOSE i \in 1..Len(p) : p[i] = "/" /\ \A j \in (i+1)..Len(p) : p[j] # "/"
    ELSE 0

RECURSIVE RStripSlash(_)
RStripSlash(s) ==
    IF s # <<>> /\ s[Len(s)] = "/" THEN RStripSlash(SubSeq(s, 1, Len(s) - 1)) ELSE s

\* os.path.basename
basename(p) == SubSeq(p, RFindSlash1(p) + 1, Len(p))

\* os.path.dirname
dirname(p) ==
    LET head == SubSeq(p, 1, RFindSlash1(p))
    IN  IF head # <<>> /\ (\E i \in 1..Len(head) : head[i] # "/")
        THEN RStripSlash(head)
        ELSE head

----------------------------------------------------------------------------
(* hera_librarian.utils.normalize_and_validate_md5 *)

IsSpace(c) == c \in {" ", "\n"}

RECURSIVE LStrip(_)
LStrip(s) == IF s # <<>> /\ IsSpace(s[1]) THEN LStrip(Tail(s)) ELSE s

RECURSIVE RStrip(_)
RStrip(s) ==
    IF s # <<>> /\ IsSpace(s[Len(s)]) THEN RStrip(SubSeq(s, 1, Len(s) - 1)) ELSE s

LowerChar(c) ==
    CASE c = "A" -> "a" [] c = "B" -> "b" [] c = "C" -> "c"
      [] c = "D" -> "d" [] c = "E" -> "e" [] c = "F" -> "f"
      [] c = "G" -> "g"
      [] OTHER -> c

Lower(s) == [i \in 1..Len(s) |-> LowerChar(s[i])]

HexDigits == {"0", "1", "2", "3", "4", "5", "6", "7", "8", "9",
              "a", "b", "c", "d", "e", "f"}

md5_normalize(text) == Lower(RStrip(LStrip(text)))

md5_is_valid(text) ==
    LET n == md5_normalize(text)
    IN  Len(n) = Md5Len /\ \A i \in 1..Len(n) : n[i] \in HexDigits

----------------------------------------------------------------------------
(* Rows, arguments and results *)

NoFile == [name |-> <<>>, type |-> "", create_time |-> 0, obsid |-> 0,
           size |-> 0, md5 |-> <<>>, source |-> ""]

NoInfo == [given |-> FALSE, size |-> 0, md5 |-> <<>>, type |-> "",
           obsid |-> 0, has_start_jd |-> FALSE, start_jd |-> 0, lst |-> 0]

NoInst == [store |-> 0, parent_dirs |-> <<>>, name |-> <<>>, rowid |-> 0]

NoInput == [name |-> <<>>, size |-> 0, md5 |-> <<>>]

\* the dict locate_file_instance returns
NoDesc == [full_path_on_store |-> <<>>, store_name |-> "", store_path |-> <<>>,
           store_ssh_host |-> ""]

\* a FileEvent before the database gives it an id
NoEvent == [name |-> <<>>, time |-> 0, type |-> "",
            payload |-> [struct |-> ("none" :> 0), bytes |-> 0]]

\* the type and payload arguments of create_file_event
NoEventInput == [type |-> "", payload |-> ("none" :> 0)]

\* the Store row an instance's store id refers to (store_object)
StoreRow(id) ==
    IF id = 1
    THEN [id |-> 1, name |-> "pot1", path_prefix |-> <<"/", "p">>,
          ssh_host |-> "host1"]
    ELSE [id |-> id, name |-> "pot2", path_prefix |-> <<"/", "q", "/">>,
          ssh_host |-> "host2"]

\* the arguments of ServerError ('cannot register %s:%s: %s', ...)
NoErr == [store_name |-> "", store_path |-> <<>>, cause |-> ""]

\* args[w] keeps what the rest of the call still reads: the store and the
\* store path only while the probe is ahead (lines 117 and 119); seq is the
\* ordinal of the call
NoArgs == [seq |-> 0, store |-> 0, store_path |-> <<>>, name |-> <<>>,
           info |-> NoInfo, staged |-> NoFile, event |-> NoEvent]

\* result[w]: op is the operation, seq the ordinal of the call, kind what it
\* returned or raised, on the constraint or message of the error, name the
\* file name the call was about, file / inst the record returned, created
\* whether the call inserted it, input what register was called with, desc
\* the dict that locate_file_instance returned, ev what create_file_event
\* was called with, hist the events list specific_file hands to its page,
\* err the arguments of the ServerError of a failed probe
NoResult == [op |-> "none", seq |-> 0, kind |-> "none", on |-> "none",
             name |-> <<>>, file |-> NoFile, created |-> FALSE,
             inst |-> NoInst, input |-> NoInput, desc |-> NoDesc,
             ev |-> NoEventInput, hist |-> <<>>, err |-> NoErr]

Res(op, seq, kind, on, nm) ==
    [NoResult EXCEPT !.op = op, !.seq = seq, !.kind = kind, !.on = on,
                     !.name = nm]

----------------------------------------------------------------------------
(* The File constructor and its validation *)

\* datetime.datetime.utcnow ().replace (microsecond=0)
utcnow_whole_seconds == now - (now % TicksPerSec)

\* the size test written as size > 0
_validate_positive_size(f) ==
    /\ ~HasSlash(f.name)
    /\ md5_is_valid(f.md5)
    /\ f.size > 0

\* File._validate: TRUE when no ValueError is raised
_validate(f) ==
    /\ ~HasSlash(f.name)
    /\ md5_is_valid(f.md5)
    /\ f.size >= 0

\* File.__init__ with create_time given; ok = FALSE stands for ValueError
File_init(name, type, obsid, source, size, md5, create_time) ==
    IF ~md5_is_valid(md5)
    THEN [ok |-> FALSE, file |-> NoFile]
    ELSE LET f == [name |-> name, type |-> type, create_time |-> create_time,
                   obsid |-> obsid, size |-> size, md5 |-> md5_normalize(md5),
                   source |-> source]
         IN  [ok |-> _validate(f), file |-> f]

----------------------------------------------------------------------------
(* to_dict / from_dict *)

\* calendar.timegm (create_time.timetuple ()): the naive value read as UTC
create_time_unix(f) == f.create_time \div TicksPerSec

to_dict(f) ==
    [name |-> f.name, type |-> f.type, create_time |-> create_time_unix(f),
     obsid |-> f.obsid, size |-> f.size, md5 |-> f.md5]

\* datetime.datetime.fromtimestamp (t): naive local time of a process whose
\* zone lies utcoffset seconds east of UTC
fromtimestamp(t, utcoffset) == (t + utcoffset) * TicksPerSec

from_dict(source, info, utcoffset) ==
    File_init(info.name, info.type, info.obsid, source, info.size, info.md5,
              fromtimestamp(info.create_time, utcoffset))

----------------------------------------------------------------------------
(* FileEvent payloads: a payload struct maps keys to the lengths of their   *)
(* string values; json.dumps turns it into a text of JsonLen bytes.         *)

KeyLen(k) == CASE k = "reason" -> 6 [] k = "type" -> 4 [] OTHER -> 1

RECURSIVE JsonItemsLen(_, _)
JsonItemsLen(struct, keys) ==
    IF keys = {} THEN 0
    ELSE LET k == CHOOSE x \in keys : TRUE
         IN  (KeyLen(k) + 2) + 2 + (struct[k] + 2)
               + (IF keys = {k} THEN 0 ELSE 2)
               + JsonItemsLen(struct, keys \ {k})

\* len (json.dumps (struct)), e.g. {"reason": "rfi"} is 17 bytes
JsonLen(struct) == 2 + JsonItemsLen(struct, DOMAIN struct)

json_dumps(struct) == [struct |-> struct, bytes |-> JsonLen(struct)]

\* FileEvent.__init__; ok = FALSE stands for ValueError
FileEvent_init(name, type, payload_struct) ==
    [ok |-> ~HasSlash(name),
     event |-> [name |-> name, time |-> utcnow_whole_seconds, type |-> type,
                payload |-> json_dumps(payload_struct)]]

\* File.make_generic_event (type, **kwargs): a payload key that names a
\* parameter of the method is a TypeError at the call
make_generic_event_accepts(payload) ==
    "type" \notin DOMAIN payload /\ "self" \notin DOMAIN payload

----------------------------------------------------------------------------
(* The database: primary keys, foreign keys, and a session's commit *)

\* the table without its primary key: any name is free
FilePKFree_unconstrained(tbl, name) == TRUE

\* File.name is the primary key of "file": TRUE when no row has this name
FilePKFree(tbl, name) == \A f \in tbl : f.name # name

\* the foreign key left unenforced
FileMissing_unenforced(tbl, name) == FALSE

\* db.ForeignKey (File.name) of FileInstance.name and FileEvent.name: TRUE
\* when the row would refer to no File
FileMissing(tbl, name) == \A f \in tbl : f.name # name

\* Observation.obsid is the key that Observation.query.get looks up
ObsPKFree(tbl, obsid) == \A o \in tbl : o.obsid # obsid

\* the foreign key of File.obsid left unenforced
ObsMissing_unenforced(tbl, obsid) == FALSE

\* db.ForeignKey (Observation.obsid) of File.obsid, nullable=False
ObsMissing(tbl, obsid) == \A o \in tbl : o.obsid # obsid

\* the table without its composite primary key
InstPKFree_unconstrained(tbl, i) == TRUE

\* (store, parent_dirs, name) is the primary key of "file_instance"
InstPKFree(tbl, i) ==
    \A x \in tbl : ~(x.store = i.store /\ x.parent_dirs = i.parent_dirs
                     /\ x.name = i.name)

\* a lookup that ignores the key
query_get_file_any(name) == files

\* cls.query.get (name): the rows with that primary key
query_get_file(name) == {f \in files : f.name = name}

\* Observation.query.get (obsid), which first autoflushes what is pending in
\* the worker's own session
query_get_obs(w, obsid) == {o \in observations \cup sess[w] : o.obsid = obsid}

\* the rows with an id that the database does not draw from its sequence
event_rows_unsequenced(pev) ==
    {[id |-> 1, name |-> e.name, time |-> e.time, type |-> e.type,
      payload |-> e.payload] : e \in pev}

\* the rows a session's new events become: FileEvent.id is filled in by the
\* database from its sequence
event_rows(pev) ==
    {[id |-> nextId, name |-> e.name, time |-> e.time, type |-> e.type,
      payload |-> e.payload] : e \in pev}

\* an insert that overwrites the table with the new rows
insert_events_overwriting(tbl, pev) ==
    IF pev = {} THEN tbl ELSE event_rows(pev)

\* INSERT into "file_event"
insert_events(tbl, pev) == tbl \cup event_rows(pev)

\* INSERT of a session's new rows in one transaction, in dependency order;
\* "on" names the first constraint that fails, "none" when it commits
flush(pobs, pfiles, pinst, pev) ==
    LET obs2 == observations \cup pobs
        files2 == files \cup pfiles
        on == IF \E o \in pobs : ~ObsPKFree(observations, o.obsid)
                THEN "observation.obsid"
              ELSE IF \E f \in pfiles : ~FilePKFree(files, f.name)
                THEN "file.name"
              ELSE IF \E f \in pfiles : ObsMissing(obs2, f.obsid)
                THEN "file.obsid"
              ELSE IF \E i \in pinst : ~InstPKFree(instances, i)
                THEN "file_instance.pk"
              ELSE IF \E i \in pinst : FileMissing(files2, i.name)
                THEN "file_instance.name"
              ELSE IF \E e \in pev : FileMissing(files2, e.name)
                THEN "file_event.name"
              ELSE "none"
    IN  [on |-> on,
         observations |-> obs2,
         files |-> files2,
         instances |-> instances \cup
             {[store |-> i.store, parent_dirs |-> i.parent_dirs,
               name |-> i.name, rowid |-> Cardinality(instances) + 1]
              : i \in pinst},
         events |-> insert_events(events, pev),
         nextId |-> nextId + Cardinality(pev)]

\* db.session.commit () by worker w, with these new rows added to what is
\* pending in its session.  res is the call's result when the transaction
\* commits; when a constraint fails the transaction is rolled back, the
\* session is left empty and the call ends in IntegrityError.
session_commit(w, pfiles, pinst, pev, res) ==
    LET c == flush(sess[w], pfiles, pinst, pev)
    IN  /\ sess' = [sess EXCEPT ![w] = {}]
        /\ IF c.on = "none"
           THEN /\ observations' = c.observations
                /\ files' = c.files
                /\ instances' = c.instances
                /\ events' = c.events
                /\ nextId' = c.nextId
                /\ result' = [result EXCEPT ![w] = res]
           ELSE /\ UNCHANGED <<observations, files, instances, events, nextId>>
                /\ result' = [result EXCEPT ![w] =
                       [Res(res.op, res.seq, "IntegrityError", c.on, res.name)
                          EXCEPT !.input = res.input, !.ev = res.ev]]

\* db.session.merge (f) in place of db.session.add (f): the row of that name
\* is overwritten
merge_and_commit_file(w, f, res) ==
    /\ sess' = [sess EXCEPT ![w] = {}]
    /\ observations' = observations \cup sess[w]
    /\ files' = {g \in files : g.name # f.name} \cup {f}
    /\ result' = [result EXCEPT ![w] = res]
    /\ UNCHANGED <<instances, events, nextId>>

\* db.session.add (f); db.session.commit ()
add_and_commit_file(w, f, res) == session_commit(w, {f}, {}, {}, res)

----------------------------------------------------------------------------
(* Inputs *)

Stores == {1, 2}
SourceName == "site1"
StorePaths == {<<"a">>, <<"d", "/", "a">>, <<"b">>}
NameInputs == {NameA, NameB, SlashName}
DirInputs == {<<"d">>}
ObsIds == {1, 2}
SizeInputs == {-1, 0, 1024}

Md5Upper == Rep("D", Md5Len)
Md5Padded == <<" ">> \o Rep("D", Md5Len) \o <<"\n">>
Md5Short == Rep("d", Md5Len - 1)
Md5Long == Rep("d", Md5Len + 1)
Md5NotHex == Rep("G", Md5Len)
Md5Inputs == {Md5Upper, Md5Padded, Md5Short, Md5Long, Md5NotHex}

GoodInfo(obsid) ==
    [given |-> TRUE, size |-> 1024, md5 |-> Md5Upper, type |-> "uv",
     obsid |-> obsid, has_start_jd |-> TRUE, start_jd |-> 2459000, lst |-> 3]

\* what a caller passes as info
InfoInputs ==
    {GoodInfo(o) : o \in ObsIds}
    \cup {[GoodInfo(1) EXCEPT !.size = -1],
          [GoodInfo(2) EXCEPT !.has_start_jd = FALSE]}

\* what store.get_info_for_path returns when it does not raise
ProbeInfos == {GoodInfo(1), [GoodInfo(2) EXCEPT !.md5 = Md5Short]}

PayloadInputs == {("reason" :> 3), ("reason" :> 499), ("type" :> 3)}

\* utcoffset, in seconds, of the zone a process runs in
UtcOffsets == {-28800, 0, 3600}

----------------------------------------------------------------------------
(* Initial state: an initialized, empty database; every worker idle *)

Init ==
    /\ files = {}
    /\ observations = {}
    /\ instances = {}
    /\ events = {}
    /\ nextId = 1
    /\ pc = [w \in AllWorkers |-> "idle"]
    /\ args = [w \in AllWorkers |-> NoArgs]
    /\ sess = [w \in AllWorkers |-> {}]
    /\ result = [w \in AllWorkers |-> NoResult]
    /\ probes = [w \in AllWorkers |-> 0]
    /\ now = 0
    /\ calls = 0

DbVars == <<files, observations, instances, events, nextId>>

\* worker w has started a call at some time
HasStarted(w) == pc[w] # "idle" \/ result[w] # NoResult

\* a worker starts a call: it is idle and the call budget is not used up.
\* Workers are interchangeable, so they are numbered in the order of their
\* first calls.
StartWithin(w, budget) ==
    /\ pc[w] = "idle"
    /\ calls < budget
    /\ \A v \in AllWorkers : v < w => HasStarted(v)
    /\ calls' = calls + 1

StartCall(w) == StartWithin(w, MaxCalls)
----------------------------------------------------------------------------
(* File.get_inferring_info *)

\* the lookup keyed by the whole store path instead of its basename
gi_prev_by_path(store_path) == query_get_file(store_path)

\* lines 104-106: name = os.path.basename (store_path); cls.query.get (name)
gi_prev(store_path) == query_get_file(basename(store_path))

\* lines 103-115: split the path, look the File up, return it when found
gi_lookup_from(w, budget, paths, infos) ==
    /\ StartWithin(w, budget)
    /\ \E store \in Stores, store_path \in paths, info \in infos :
         LET name == basename(store_path)
             prev == gi_prev(store_path)
         IN  /\ probes' = [probes EXCEPT ![w] = 0]
             /\ IF prev # {}
                THEN /\ result' = [result EXCEPT ![w] =
                            [Res("resolve", calls + 1, "File", "none", name)
                               EXCEPT !.file = CHOOSE f \in prev : TRUE]]
                     /\ UNCHANGED <<pc, args>>
                ELSE /\ result' = [result EXCEPT ![w] = NoResult]
                     /\ pc' = [pc EXCEPT ![w] =
                            IF info.given THEN "gi_stage" ELSE "gi_probe"]
                     /\ args' = [args EXCEPT ![w] =
                            IF info.given
                            THEN [NoArgs EXCEPT !.seq = calls + 1,
                                                !.name = name, !.info = info]
                            ELSE [NoArgs EXCEPT !.seq = calls + 1,
                                                !.name = name,
                                                !.store = store,
                                                !.store_path = store_path]]
    /\ UNCHANGED <<DbVars, sess, now>>

gi_lookup(w) ==
    gi_lookup_from(w, MaxCalls, StorePaths, InfoInputs \cup {NoInfo})

\* the exceptions store.get_info_for_path may raise
ProbeErrors == {"ssh failed", "no such path"}

\* the arguments of the ServerError that names a store only by its id
probe_error_without_store(store, path, e) ==
    [store_name |-> "", store_path |-> path, cause |-> e]

\* line 119: ServerError ('cannot register %s:%s: %s', store.name,
\* store_path, e)
probe_error(store, path, e) ==
    [store_name |-> StoreRow(store).name, store_path |-> path, cause |-> e]

\* lines 115-119: info is None, ask the store; the probe may raise
gi_probe(w) ==
    /\ pc[w] = "gi_probe"
    /\ probes' = [probes EXCEPT ![w] = @ + 1]
    /\ \/ /\ \E e \in ProbeErrors :
               result' = [result EXCEPT ![w] =
                 [Res("resolve", args[w].seq, "ServerError", "cannot register",
                      args[w].name)
                    EXCEPT !.err = probe_error(args[w].store,
                                               args[w].store_path, e)]]
          /\ pc' = [pc EXCEPT ![w] = "idle"]
          /\ args' = [args EXCEPT ![w] = NoArgs]
       \/ /\ \E info \in ProbeInfos :
               args' = [args EXCEPT ![w].info = info, ![w].store = 0,
                                    ![w].store_path = <<>>]
          /\ pc' = [pc EXCEPT ![w] = "gi_stage"]
          /\ UNCHANGED result
    /\ UNCHANGED <<DbVars, sess, now, calls>>

\* lines 121-135: read the info, add the Observation when there is none,
\* construct the File and add it to the session
gi_stage(w) ==
    LET a == args[w]
        info == a.info
        obs == query_get_obs(w, info.obsid)
        f == File_init(a.name, info.type, info.obsid, SourceName,
                       info.size, info.md5, utcnow_whole_seconds)
    IN  /\ pc[w] = "gi_stage"
        /\ IF obs = {} /\ ~info.has_start_jd
           THEN \* required_arg (info, float, 'start_jd') raises
                /\ result' = [result EXCEPT ![w] =
                       Res("resolve", a.seq, "ServerError", "start_jd", a.name)]
                /\ pc' = [pc EXCEPT ![w] = "idle"]
                /\ args' = [args EXCEPT ![w] = NoArgs]
                /\ UNCHANGED sess
           ELSE /\ sess' = [sess EXCEPT ![w] =
                       IF obs = {}
                       THEN @ \cup {[obsid |-> info.obsid,
                                     start_jd |-> info.start_jd,
                                     lst |-> info.lst]}
                       ELSE @]
                /\ IF f.ok
                   THEN /\ pc' = [pc EXCEPT ![w] = "gi_commit"]
                        /\ args' = [args EXCEPT ![w].staged = f.file]
                        /\ UNCHANGED result
                   ELSE /\ result' = [result EXCEPT ![w] =
                               Res("resolve", a.seq, "ValueError", "File",
                                   a.name)]
                        /\ pc' = [pc EXCEPT ![w] = "idle"]
                        /\ args' = [args EXCEPT ![w] = NoArgs]
        /\ UNCHANGED <<DbVars, probes, now, calls>>

\* lines 136-137: db.session.commit (); return inst
gi_commit(w) ==
    /\ pc[w] = "gi_commit"
    /\ add_and_commit_file(w, args[w].staged,
           [Res("resolve", args[w].seq, "File", "none", args[w].name)
              EXCEPT !.file = args[w].staged, !.created = TRUE])
    /\ pc' = [pc EXCEPT ![w] = "idle"]
    /\ args' = [args EXCEPT ![w] = NoArgs]
    /\ UNCHANGED <<probes, now, calls>>

----------------------------------------------------------------------------
(* register: construct a File, add it to the session, commit *)

register_from(w, budget, names, obsids, sizes, md5s) ==
    /\ StartWithin(w, budget)
    /\ \E name \in names, obsid \in obsids, size \in sizes, md5 \in md5s :
         LET f == File_init(name, "uv", obsid, SourceName, size, md5,
                            utcnow_whole_seconds)
             r == [Res("register", calls + 1, "File", "none", name)
                     EXCEPT !.input = [name |-> name, size |-> size,
                                       md5 |-> md5]]
         IN  IF f.ok
             THEN add_and_commit_file(w, f.file,
                      [r EXCEPT !.file = f.file, !.created = TRUE])
             ELSE /\ result' = [result EXCEPT ![w] =
                         [r EXCEPT !.kind = "ValueError", !.on = "File"]]
                  /\ UNCHANGED <<DbVars, sess>>
    /\ UNCHANGED <<pc, args, probes, now>>

register(w) ==
    register_from(w, MaxCalls, {NameA, NameB}, ObsIds, {1024}, {Md5Upper})

(* createInstance: construct a FileInstance, add it to the session, commit *)

create_instance_from(w, budget, stores, dirs, names) ==
    /\ StartWithin(w, budget)
    /\ \E store \in stores, parent_dirs \in dirs, name \in names :
         IF HasSlash(name)
         THEN /\ result' = [result EXCEPT ![w] =
                     Res("create_instance", calls + 1, "ValueError",
                         "FileInstance", name)]
              /\ UNCHANGED <<DbVars, sess>>
         ELSE session_commit(w, {},
                  {[store |-> store, parent_dirs |-> parent_dirs,
                    name |-> name]}, {},
                  [Res("create_instance", calls + 1, "FileInstance", "none",
                       name)
                     EXCEPT !.inst = [store |-> store,
                                      parent_dirs |-> parent_dirs,
                                      name |-> name,
                                      rowid |-> Cardinality(instances) + 1]])
    /\ UNCHANGED <<pc, args, probes, now>>

create_instance(w) ==
    create_instance_from(w, MaxCalls, Stores, DirInputs, NameInputs)

----------------------------------------------------------------------------
(* Events *)

\* the events that workers have added to their sessions and not committed
StagedEvents == {w \in AllWorkers : pc[w] = "cfe_commit"}

\* append: construct a FileEvent, add it to the session, commit
append_within(w, budget, cap, names, payloads) ==
    /\ StartWithin(w, budget)
    /\ Cardinality(events) + Cardinality(StagedEvents) < cap
    /\ \E name \in names, payload \in payloads :
         LET e == FileEvent_init(name, "note", payload)
         IN  IF e.ok
             THEN session_commit(w, {}, {}, {e.event},
                      Res("append", calls + 1, "FileEvent", "none", name))
             ELSE /\ result' = [result EXCEPT ![w] =
                         Res("append", calls + 1, "ValueError", "FileEvent",
                             name)]
                  /\ UNCHANGED <<DbVars, sess>>
    /\ UNCHANGED <<pc, args, probes, now>>

append(w) ==
    append_within(w, MaxCalls, MaxEvents, {NameA, SlashName}, PayloadInputs)

\* the /api/create_file_event endpoint, run without another worker's step
\* between its lookup and its commit
create_file_event(w) ==
    /\ StartCall(w)
    /\ Cardinality(events) < MaxEvents
    /\ \E file_name \in {NameA, NameB}, payload \in PayloadInputs :
         LET file == query_get_file(file_name)
             e == FileEvent_init(file_name, "flagged", payload)
             r == [Res("create_file_event", calls + 1, "ok", "none",
                       file_name)
                     EXCEPT !.ev = [type |-> "flagged", payload |-> payload]]
         IN  IF file = {}
             THEN /\ result' = [result EXCEPT ![w] =
                         [r EXCEPT !.kind = "ServerError",
                                   !.on = "no known file"]]
                  /\ UNCHANGED <<DbVars, sess>>
             ELSE IF ~make_generic_event_accepts(payload)
             THEN /\ result' = [result EXCEPT ![w] =
                         [r EXCEPT !.kind = "TypeError",
                                   !.on = "make_generic_event"]]
                  /\ UNCHANGED <<DbVars, sess>>
             ELSE IF ~e.ok
             THEN /\ result' = [result EXCEPT ![w] =
                         [r EXCEPT !.kind = "ValueError", !.on = "FileEvent"]]
                  /\ UNCHANGED <<DbVars, sess>>
             ELSE session_commit(w, {}, {}, {e.event}, r)
    /\ UNCHANGED <<pc, args, probes, now>>

\* lines 302-311 of the endpoint: read the arguments, look the File up,
\* build the event, add it to the session
cfe_stage(w, budget, cap, names, types, payloads) ==
    /\ StartWithin(w, budget)
    /\ Cardinality(events) + Cardinality(StagedEvents) < cap
    /\ \E file_name \in names, type \in types, payload \in payloads :
         LET file == query_get_file(file_name)
             e == FileEvent_init(file_name, type, payload)
             r == [Res("create_file_event", calls + 1, "ok", "none",
                       file_name)
                     EXCEPT !.ev = [type |-> type, payload |-> payload]]
         IN  IF file = {}
             THEN /\ result' = [result EXCEPT ![w] =
                         [r EXCEPT !.kind = "ServerError",
                                   !.on = "no known file"]]
                  /\ UNCHANGED <<pc, args>>
             ELSE IF ~make_generic_event_accepts(payload)
             THEN /\ result' = [result EXCEPT ![w] =
                         [r EXCEPT !.kind = "TypeError",
                                   !.on = "make_generic_event"]]
                  /\ UNCHANGED <<pc, args>>
             ELSE IF ~e.ok
             THEN /\ result' = [result EXCEPT ![w] =
                         [r EXCEPT !.kind = "ValueError", !.on = "FileEvent"]]
                  /\ UNCHANGED <<pc, args>>
             ELSE /\ result' = [result EXCEPT ![w] = NoResult]
                  /\ pc' = [pc EXCEPT ![w] = "cfe_commit"]
                  /\ args' = [args EXCEPT ![w] =
                         [NoArgs EXCEPT !.seq = calls + 1, !.name = file_name,
                                        !.event = e.event]]
    /\ UNCHANGED <<DbVars, sess, probes, now>>

\* lines 312-313 of the endpoint: db.session.commit (); return {}
cfe_commit(w) ==
    /\ pc[w] = "cfe_commit"
    /\ session_commit(w, {}, {}, {args[w].event},
           [Res("create_file_event", args[w].seq, "ok", "none", args[w].name)
              EXCEPT !.ev = [type |-> args[w].event.type,
                             payload |-> args[w].event.payload.struct]])
    /\ pc' = [pc EXCEPT ![w] = "idle"]
    /\ args' = [args EXCEPT ![w] = NoArgs]
    /\ UNCHANGED <<probes, now, calls>>

----------------------------------------------------------------------------
(* Stores, and the paths of an instance *)

\* plain concatenation in place of os.path.join
path_concat(a, b) == a \o b

\* os.path.join (a, b)
path_join(a, b) ==
    IF b # <<>> /\ b[1] = "/" THEN b
    ELSE IF a = <<>> \/ a[Len(a)] = "/" THEN a \o b
    ELSE a \o <<"/">> \o b

\* FileInstance.store_path
store_path(inst) == path_join(inst.parent_dirs, inst.name)

\* FileInstance.full_path_on_store
full_path_on_store(inst) ==
    path_join(path_join(StoreRow(inst.store).path_prefix, inst.parent_dirs),
              inst.name)

\* the dict built at lines 329-334
descriptor(inst) ==
    [full_path_on_store |-> full_path_on_store(inst),
     store_name |-> StoreRow(inst.store).name,
     store_path |-> store_path(inst),
     store_ssh_host |-> StoreRow(inst.store).ssh_host]

----------------------------------------------------------------------------
(* The /api/locate_file_instance endpoint: file.instances is an unordered   *)
(* relationship, so the instance the loop meets first is any of them        *)

\* the instances a File's "instances" relationship loads
file_instances(file_name) == {i \in instances : i.name = file_name}

locate_within(w, budget, names) ==
    /\ StartWithin(w, budget)
    /\ \E file_name \in names :
         LET file == query_get_file(file_name)
             insts == file_instances(file_name)
             r == Res("locate", calls + 1, "ok", "none", file_name)
         IN  IF file = {}
             THEN result' = [result EXCEPT ![w] =
                      [r EXCEPT !.kind = "ServerError", !.on = "no known file"]]
             ELSE IF insts = {}
             THEN result' = [result EXCEPT ![w] =
                      [r EXCEPT !.kind = "ServerError", !.on = "no instances"]]
             ELSE \E inst \in insts :
                      result' = [result EXCEPT ![w] =
                          [r EXCEPT !.inst = inst, !.desc = descriptor(inst)]]
    /\ UNCHANGED <<DbVars, pc, args, sess, probes, now>>

locate_file_instance(w) == locate_within(w, MaxCalls, {NameA, NameB})

----------------------------------------------------------------------------
(* The /files/<name> page: the events of the File, newest first.            *)
(* file.events is an unordered relationship: it loads the events in any     *)
(* order, and sorted () keeps that order among events of equal time.        *)

\* the orders in which a relationship may load the rows of S
Orders(S) ==
    {q \in [1..Cardinality(S) -> S] :
       \A i, j \in 1..Cardinality(S) : i # j => q[i] # q[j]}

\* e put into a list that is in ascending order of time
RECURSIVE insert_ascending(_, _)
insert_ascending(e, q) ==
    IF q = <<>> THEN <<e>>
    ELSE IF q[1].time > e.time THEN <<e>> \o q
    ELSE <<q[1]>> \o insert_ascending(e, Tail(q))

\* sorted (q, key=lambda e: e.time), without reverse=True
RECURSIVE sorted_by_time(_)
sorted_by_time(q) ==
    IF q = <<>> THEN <<>>
    ELSE insert_ascending(q[Len(q)], sorted_by_time(SubSeq(q, 1, Len(q) - 1)))

\* e put into a list that is in descending order of time, behind the
\* elements of equal time
RECURSIVE insert_descending(_, _)
insert_descending(e, q) ==
    IF q = <<>> THEN <<e>>
    ELSE IF q[1].time < e.time THEN <<e>> \o q
    ELSE <<q[1]>> \o insert_descending(e, Tail(q))

\* sorted (q, key=lambda e: e.time, reverse=True): a stable sort
RECURSIVE sorted_by_time_reverse(_)
sorted_by_time_reverse(q) ==
    IF q = <<>> THEN <<>>
    ELSE insert_descending(q[Len(q)],
                           sorted_by_time_reverse(SubSeq(q, 1, Len(q) - 1)))

\* the events a File's "events" relationship loads
file_events(name) == {e \in events : e.name = name}

specific_file(w, budget, names) ==
    /\ StartWithin(w, budget)
    /\ \E name \in names :
         LET file == query_get_file(name)
             r == Res("specific_file", calls + 1, "page", "none", name)
         IN  IF file = {}
             THEN result' = [result EXCEPT ![w] =
                      [r EXCEPT !.kind = "redirect", !.on = "No such file"]]
             ELSE \E loaded \in Orders(file_events(name)) :
                      result' = [result EXCEPT ![w] =
                          [r EXCEPT !.hist = sorted_by_time_reverse(loaded)]]
    /\ UNCHANGED <<DbVars, pc, args, sess, probes, now>>

----------------------------------------------------------------------------
(* File.from_dict applied to File.to_dict of a cataloged File, in a process *)
(* whose time zone lies utcoffset seconds east of UTC                       *)

round_trip_within(w, budget) ==
    /\ StartWithin(w, budget)
    /\ \E f \in files, utcoffset \in UtcOffsets :
         LET g == from_dict("site2", to_dict(f), utcoffset)
             r == Res("from_dict", calls + 1, "File", "none", f.name)
         IN  result' = [result EXCEPT ![w] =
                 IF g.ok
                 THEN [r EXCEPT !.file = g.file]
                 ELSE [r EXCEPT !.kind = "ValueError", !.on = "File"]]
    /\ UNCHANGED <<DbVars, pc, args, sess, probes, now>>

round_trip(w) == round_trip_within(w, MaxCalls)

----------------------------------------------------------------------------
(* The session of a worker ends (db = SQLAlchemy (app) removes it when the  *)
(* application context is torn down): what is still pending in it is        *)
(* dropped.  Nothing in get_inferring_info ends the session, so a worker    *)
(* may also go on to its next call with the session as it stands.           *)

shutdown_session(w) ==
    /\ pc[w] = "idle"
    /\ sess[w] # {}
    /\ sess' = [sess EXCEPT ![w] = {}]
    /\ UNCHANGED <<DbVars, pc, args, result, probes, now, calls>>

\* the clock advances
Tick ==
    /\ now < MaxTicks
    /\ now' = now + 1
    /\ UNCHANGED <<DbVars, pc, args, sess, result, probes, calls>>

Next ==
    \/ \E w \in Workers : gi_lookup(w)
    \/ \E w \in Workers : gi_probe(w)
    \/ \E w \in Workers : gi_stage(w)
    \/ \E w \in Workers : gi_commit(w)
    \/ \E w \in Workers : register(w)
    \/ \E w \in Workers : create_instance(w)
    \/ \E w \in Workers : append(w)
    \/ \E w \in Workers : create_file_event(w)
    \/ \E w \in Workers : locate_file_instance(w)
    \/ \E w \in Workers : round_trip(w)
    \/ \E w \in Workers : shutdown_session(w)
    \/ Tick

Spec == Init /\ [][Next]_vars

----------------------------------------------------------------------------
(* Callers racing in get_inferring_info on one unseen store path: every     *)
(* caller in RaceWorkers may make a call                                    *)

RacePath == <<"d", "/", "a">>
RaceInfos == {GoodInfo(1), GoodInfo(2), NoInfo}

gi_lookup_race(w) ==
    gi_lookup_from(w, MaxCalls + 1, {RacePath}, RaceInfos)

NextRace ==
    \/ \E w \in RaceWorkers : gi_lookup_race(w)
    \/ \E w \in RaceWorkers : gi_probe(w)
    \/ \E w \in RaceWorkers : gi_stage(w)
    \/ \E w \in RaceWorkers : gi_commit(w)
    \/ \E w \in RaceWorkers : shutdown_session(w)
    \/ Tick

SpecRace == Init /\ [][NextRace]_vars

----------------------------------------------------------------------------
(* The File constructor on every kind of input: one worker resolves a path  *)
(* (which creates the Observation a File row must refer to), registers      *)
(* Files and sends them through to_dict / from_dict                         *)

gi_lookup_ctor(w) ==
    gi_lookup_from(w, MaxCalls + 1, {NameB}, {GoodInfo(1)})

register_any(w) ==
    register_from(w, MaxCalls + 1, {NameA, SlashName}, {1}, SizeInputs,
                  Md5Inputs)

NextCtor ==
    \/ gi_lookup_ctor(1)
    \/ gi_stage(1)
    \/ gi_commit(1)
    \/ register_any(1)
    \/ round_trip_within(1, MaxCalls + 1)
    \/ Tick

SpecCtor == Init /\ [][NextCtor]_vars

----------------------------------------------------------------------------
(* Instances and their location: one File is resolved, instances of it are  *)
(* created in both stores and in several directories, and located           *)

LocateCalls == MaxCalls + 3
LocateDirs == {<<>>, <<"d">>}

NextLocate ==
    \/ \E w \in Workers : gi_lookup_from(w, LocateCalls, {NameA}, {GoodInfo(1)})
    \/ \E w \in Workers : gi_stage(w)
    \/ \E w \in Workers : gi_commit(w)
    \/ \E w \in Workers :
         create_instance_from(w, LocateCalls, Stores, LocateDirs,
                              {NameA, NameB, SlashName})
    \/ \E w \in Workers : locate_within(w, LocateCalls, {NameA, NameB})

SpecLocate == Init /\ [][NextLocate]_vars

----------------------------------------------------------------------------
(* Events written by concurrent callers: Files are resolved, and events of  *)
(* several types are created for them while the clock advances              *)

EventCalls == MaxCalls + 2
EventCap == MaxEvents + 1
EventTypes == {"flagged", "note"}
EventPayloads == {("reason" :> 3), ("type" :> 3)}

NextEvents ==
    \/ \E w \in Workers :
         gi_lookup_from(w, EventCalls, {NameA, NameB}, {GoodInfo(1)})
    \/ \E w \in Workers : gi_stage(w)
    \/ \E w \in Workers : gi_commit(w)
    \/ \E w \in Workers :
         cfe_stage(w, EventCalls, EventCap, {NameA, NameB}, EventTypes,
                   EventPayloads)
    \/ \E w \in Workers : cfe_commit(w)
    \/ Tick

SpecEvents == Init /\ [][NextEvents]_vars

----------------------------------------------------------------------------
(* The event log under every operation: one worker resolves a File, writes  *)
(* events for it and runs every other operation of the module               *)

LogCalls == MaxCalls + 3
LogCap == MaxEvents + 1

NextLog ==
    \/ gi_lookup_from(1, LogCalls, {NameA, SlashName},
                      {GoodInfo(1), [GoodInfo(1) EXCEPT !.size = -1], NoInfo})
    \/ gi_probe(1)
    \/ gi_stage(1)
    \/ gi_commit(1)
    \/ register_from(1, LogCalls, {NameA, NameB}, {1}, {1024}, {Md5Upper})
    \/ create_instance_from(1, LogCalls, {1}, DirInputs, {NameA})
    \/ append_within(1, LogCalls, LogCap, {NameA}, {("reason" :> 3)})
    \/ cfe_stage(1, LogCalls, LogCap, {NameA}, {"flagged"}, {("reason" :> 3)})
    \/ cfe_commit(1)
    \/ locate_within(1, LogCalls, {NameA})
    \/ specific_file(1, LogCalls, {NameA, NameB})
    \/ shutdown_session(1)
    \/ Tick

SpecLog == Init /\ [][NextLog]_vars

----------------------------------------------------------------------------
(* Properties *)

\* a call of operation op by worker w ends in this step
CallEnds(w, op) == result'[w].seq # result[w].seq /\ result'[w].op = op

AllIdle == \A w \in AllWorkers : pc[w] = "idle"

FilesNamed(n) == {f \in files : f.name = n}

\* worker w's last call was a resolve that got as far as its commit
ResolveCommitted(w) ==
    /\ result[w].op = "resolve"
    /\ result[w].created \/ result[w].kind = "IntegrityError"

\* C1: however the lookup, probe, staging and commit steps of the callers
\* that resolve one unseen store path interleave, no state holds two Files of
\* one name, and once every caller has finished and one of them got as far as
\* its commit, there is exactly one File of that name and exactly one
\* Observation with that File's obsid.
C1_OneFilePerRacedName ==
    /\ \A f, g \in files : f.name = g.name => f = g
    /\ \A w \in AllWorkers :
         AllIdle /\ ResolveCommitted(w) =>
           /\ Cardinality(FilesNamed(result[w].name)) = 1
           /\ \A f \in FilesNamed(result[w].name) :
                Cardinality({o \in observations : o.obsid = f.obsid}) = 1

\* three callers raced on the path: all passed the lookup, one created the
\* File and the two others met the uniqueness conflict at their commit
C1_Witness ==
    /\ AllIdle
    /\ \E w \in RaceWorkers :
         /\ result[w].created
         /\ \A v \in RaceWorkers \ {w} :
              /\ result[v].op = "resolve"
              /\ result[v].kind = "IntegrityError"
              /\ result[v].on = "file.name"
              /\ result[v].name = result[w].name

\* C2: a resolve call whose commit meets the uniqueness conflict on the
\* File's name does not end in an error (it returns the winner's File).
C2_LoserReturnsWinnersFile ==
    \A w \in AllWorkers :
      ~(/\ result[w].op = "resolve"
        /\ result[w].kind = "IntegrityError"
        /\ result[w].on = "file.name")

\* C3: no Observation is ever persisted without a File that refers to it:
\* resolve commits the Observation it creates together with the File or not
\* at all, also when the same session commits later.
C3_NoObservationWithoutFile ==
    \A o \in observations : \E f \in files : f.obsid = o.obsid

\* C4: a resolve call on a store path whose basename already names a File
\* ends at the lookup: it returns that File's row as it stands, makes no
\* probe, and leaves every table and the session as they were, whatever the
\* store, the parent directory and the info it was given.
C4_ExistingFileReturned ==
    [][\A w \in AllWorkers :
         LET n == IF pc'[w] = "idle" THEN result'[w].name ELSE args'[w].name
         IN  (/\ pc[w] = "idle"
              /\ pc'[w] # "idle" \/ CallEnds(w, "resolve")
              /\ FilesNamed(n) # {})
             => /\ pc'[w] = "idle"
                /\ result'[w].kind = "File"
                /\ ~result'[w].created
                /\ result'[w].file \in FilesNamed(n)
                /\ probes'[w] = 0
                /\ UNCHANGED <<DbVars, sess>>]_vars

\* a resolve call has returned a File that it did not create: the row was
\* there at the lookup, stored under a parent directory or not
C4_Witness ==
    \E w \in Workers :
      /\ result[w].op = "resolve"
      /\ result[w].kind = "File"
      /\ ~result[w].created
      /\ result[w].file \in files
      /\ probes[w] = 0

\* C5: File rows are write-once: no step removes a File row or changes one
\* of its fields, and a read of the name keeps returning the same row.
C5_FileFactsWriteOnce ==
    [][\A f \in files :
         /\ f \in files'
         /\ \A g \in files' : g.name = f.name => g = f]_vars

\* a File exists and a later call about the same name has gone through
C5_Witness ==
    \E f \in files : \E w \in Workers :
      /\ result[w].name = f.name
      /\ ~result[w].created
      /\ result[w].op \in {"create_instance", "create_file_event", "append",
                           "locate", "from_dict"}
      /\ result[w].kind \in {"FileInstance", "FileEvent", "ok", "File"}

\* C6: a register call with a name that already denotes a File ends in the
\* conflict error of the failed commit and leaves every table as it was.
C6_RegisterExistingNameConflicts ==
    [][\A w \in AllWorkers :
         (CallEnds(w, "register") /\ FilesNamed(result'[w].name) # {})
         => /\ result'[w].kind = "IntegrityError"
            /\ ~result'[w].created
            /\ UNCHANGED DbVars]_vars

\* a register call on the name of an existing File was refused
C6_Witness ==
    \E w \in Workers :
      /\ result[w].op = "register"
      /\ result[w].kind = "IntegrityError"
      /\ result[w].on = "file.name"
      /\ FilesNamed(result[w].name) # {}

\* a text of exactly 32 characters, each a digit or a lowercase letter a-f
IsLowerHex32(text) ==
    /\ Len(text) = 32
    /\ \A i \in 1..Len(text) :
         text[i] \in {"0", "1", "2", "3", "4", "5", "6", "7", "8", "9",
                      "a", "b", "c", "d", "e", "f"}

\* C7: register ends in the validation error, and persists nothing, exactly
\* when the name contains "/", the size is negative or the md5 does not
\* normalize to 32 hexadecimal characters; for every other input the File is
\* constructed, and the row that is stored carries the name and the size
\* given and the md5 in its lowercase 32-hex form.
C7_RegisterValidates ==
    [][\A w \in AllWorkers :
         CallEnds(w, "register") =>
           LET r == result'[w]
               i == r.input
           IN  IF \/ HasSlash(i.name)
                  \/ i.size < 0
                  \/ ~IsLowerHex32(md5_normalize(i.md5))
               THEN /\ r.kind = "ValueError"
                    /\ UNCHANGED <<DbVars, sess>>
               ELSE /\ r.kind \in {"File", "IntegrityError"}
                    /\ r.kind = "IntegrityError" => UNCHANGED DbVars
                    /\ r.kind = "File" =>
                         /\ r.file \in files'
                         /\ r.file.name = i.name
                         /\ r.file.size = i.size
                         /\ IsLowerHex32(r.file.md5)
                         /\ r.file.md5 = md5_normalize(i.md5)]_vars

\* an empty File was registered with a padded uppercase md5 text, and the
\* stored row carries the 32 lowercase digits
C7_Witness ==
    \E w \in Workers :
      /\ result[w].op = "register"
      /\ result[w].kind = "File"
      /\ result[w].input.md5 = Md5Padded
      /\ result[w].input.size = 0
      /\ result[w].file \in files
      /\ result[w].file.md5 = Rep("d", 32)

\* C8: from_dict (source, to_dict (file)) yields a File equal to the
\* original in name, type, create_time, obsid, size and md5, whatever the
\* time zone of the process that runs from_dict.
C8_DictRoundTrip ==
    \A w \in AllWorkers :
      result[w].op = "from_dict" =>
        /\ result[w].kind = "File"
        /\ \E f \in files :
             /\ result[w].file.name = f.name
             /\ result[w].file.type = f.type
             /\ result[w].file.create_time = f.create_time
             /\ result[w].file.obsid = f.obsid
             /\ result[w].file.size = f.size
             /\ result[w].file.md5 = f.md5

\* C9: every stored FileEvent has a serialized payload of at most 512 bytes.
C9_StoredPayloadWithinCap ==
    \A e \in events : e.payload.bytes <= PayloadCap

\* C10: every persisted FileInstance names an existing File; a
\* createInstance call with "/" in the name ends in the validation error,
\* one whose name denotes no File when the insert is made ends in the
\* integrity error of the refused insert, and neither adds a row.
C10_InstancesNameFiles ==
    /\ [](\A i \in instances : FilesNamed(i.name) # {})
    /\ [][\A w \in AllWorkers :
            CallEnds(w, "create_instance") =>
              LET r == result'[w]
              IN  /\ HasSlash(r.name) =>
                       r.kind = "ValueError" /\ UNCHANGED DbVars
                  /\ (~HasSlash(r.name) /\ FilesNamed(r.name) = {}) =>
                       /\ r.kind = "IntegrityError"
                       /\ sess[w] = {} => r.on = "file_instance.name"
                       /\ UNCHANGED DbVars
                  /\ r.kind = "FileInstance" =>
                       r.inst \in instances' /\ FilesNamed(r.name) # {}]_vars

\* an instance insert was refused for want of its File while another worker
\* had that File staged in get_inferring_info and not yet committed
C10_Witness ==
    \E w, v \in Workers :
      /\ result[w].op = "create_instance"
      /\ result[w].kind = "IntegrityError"
      /\ result[w].on = "file_instance.name"
      /\ pc[v] = "gi_commit"
      /\ args[v].name = result[w].name

\* C11: a locate call on a name that no File has ends in the error "no known
\* file"; on a File that has no instance it ends in the different error "no
\* instances"; otherwise it succeeds; and in all three cases the call leaves
\* files, instances and events (and observations) as they were.
C11_LocateNotFoundErrors ==
    [][\A w \in AllWorkers :
         CallEnds(w, "locate") =>
           LET r == result'[w]
           IN  /\ UNCHANGED DbVars
               /\ IF FilesNamed(r.name) = {}
                  THEN r.kind = "ServerError" /\ r.on = "no known file"
                  ELSE IF \A i \in instances : i.name # r.name
                  THEN r.kind = "ServerError" /\ r.on = "no instances"
                  ELSE r.kind = "ok"]_vars

\* one call was refused for an unknown file and another for a known file
\* that has no instance
C11_Witness ==
    \E w, v \in Workers :
      /\ result[w].op = "locate" /\ result[w].on = "no known file"
      /\ result[w].name = NameB
      /\ result[v].op = "locate" /\ result[v].on = "no instances"
      /\ result[v].name = NameA
      /\ FilesNamed(NameA) # {}

\* the path of an instance inside its store, written out: the directory,
\* one "/", the name; the name alone when there is no directory
RelativePath(i) ==
    IF i.parent_dirs = <<>> THEN i.name
    ELSE i.parent_dirs \o <<"/">> \o i.name

\* a store's path prefix without a "/" at its end
PrefixStem(id) ==
    LET p == StoreRow(id).path_prefix
    IN  IF p # <<>> /\ p[Len(p)] = "/" THEN SubSeq(p, 1, Len(p) - 1) ELSE p

C13_LocateDeterministic ==
    [][\A w, v \in AllWorkers :
         ( /\ CallEnds(w, "locate")
           /\ result'[w].kind = "ok"
           /\ result[v].op = "locate"
           /\ result[v].kind = "ok"
           /\ result[v].name = result'[w].name
           /\ result'[w].seq = result[v].seq + 1
           /\ AllIdle )
         => /\ result'[w].inst = result[v].inst
            /\ result'[w].desc = result[v].desc]_vars

\* C17: no two FileInstance rows have the same store, parent_dirs and name,
\* whichever callers inserted them and in whatever order.
C17_OneInstancePerTriple ==
    \A i, j \in instances :
      (i.store = j.store /\ i.parent_dirs = j.parent_dirs /\ i.name = j.name)
        => i = j

\* one caller created an instance, another caller's insert for the same file
\* was refused by the primary key, and the file has a second instance that
\* differs in store or directory
C17_Witness ==
    \E w, v \in Workers :
      /\ w # v
      /\ result[w].op = "create_instance"
      /\ result[w].kind = "FileInstance"
      /\ result[v].op = "create_instance"
      /\ result[v].kind = "IntegrityError"
      /\ result[v].on = "file_instance.pk"
      /\ result[v].name = result[w].name
      /\ \E i, j \in instances :
           /\ i.name = result[w].name /\ j.name = result[w].name
           /\ (i.store # j.store \/ i.parent_dirs # j.parent_dirs)

\* C14: a create_file_event call on a name that no File has ends in the
\* error "no known file" and changes no table; on an existing File it ends
\* with the empty acknowledgment and adds exactly one FileEvent, which carries
\* the file name, the type and the payload given, and changes nothing else.
C14_CreateFileEventAppendsOne ==
    [][\A w \in AllWorkers :
         CallEnds(w, "create_file_event") =>
           LET r == result'[w]
           IN  IF FilesNamed(r.name) = {}
               THEN /\ r.kind = "ServerError"
                    /\ r.on = "no known file"
                    /\ UNCHANGED DbVars
               ELSE /\ r.kind = "ok"
                    /\ \E e \in events' \ events :
                         /\ events' = events \cup {e}
                         /\ e.name = r.name
                         /\ e.type = r.ev.type
                         /\ e.payload.struct = r.ev.payload
                    /\ UNCHANGED <<files, observations, instances>>]_vars

\* C15: every FileEvent row that is persisted is still there, with the same
\* id, name, time, type and payload, after every step of every operation.
C15_EventLogAppendOnly ==
    [][\A e \in events : e \in events']_vars

\* with an event in the log, a later call created an instance of its File,
\* and the event written first is still in the log
C15_Witness ==
    /\ result[1].op = "create_instance"
    /\ result[1].kind = "FileInstance"
    /\ Cardinality(events) = 2
    /\ \E e \in events : e.id = 1 /\ e.name = result[1].name

\* C16: a resolve call whose store probe raises ends at that step in
\* ServerError "cannot register", whose arguments are the name of the store
\* probed, the store path given and the exception raised; the call has then
\* probed the store once, and it has created and staged no File and no
\* Observation.  A probe step is never followed by another probe of the call.
C16_ProbeFailureSurfaces ==
    [][\A w \in AllWorkers :
         pc[w] = "gi_probe" =>
           /\ pc'[w] # "gi_probe" => probes'[w] = 1
           /\ CallEnds(w, "resolve") =>
                /\ result'[w].kind = "ServerError"
                /\ result'[w].on = "cannot register"
                /\ result'[w].err.store_name = StoreRow(args[w].store).name
                /\ result'[w].err.store_path = args[w].store_path
                /\ result'[w].err.cause \in ProbeErrors
                /\ result'[w].name = basename(args[w].store_path)
                /\ UNCHANGED <<DbVars, sess>>]_vars

\* the probe of a path in a directory of the second store failed, and the
\* catalog has no File and no Observation
C16_Witness ==
    /\ result[1].op = "resolve"
    /\ result[1].kind = "ServerError"
    /\ result[1].err.store_name = "pot2"
    /\ result[1].err.store_path = <<"d", "/", "a">>
    /\ result[1].err.cause = "ssh failed"
    /\ probes[1] = 1
    /\ files = {} /\ observations = {} /\ sess[1] = {}

\* C18: the file page of a name that has a File is given a list that holds
\* exactly the events of that name, each once, in which no element has an
\* earlier time than the element after it (newest first), whatever the order
\* in which the events were stored or loaded.
C18_HistoryNewestFirst ==
    [][\A w \in AllWorkers :
         CallEnds(w, "specific_file") =>
           LET r == result'[w]
               h == r.hist
               mine == {e \in events : e.name = r.name}
           IN  IF FilesNamed(r.name) = {}
               THEN r.kind = "redirect" /\ h = <<>>
               ELSE /\ r.kind = "page"
                    /\ Len(h) = Cardinality(mine)
                    /\ {h[i] : i \in 1..Len(h)} = mine
                    /\ \A i \in 1..(Len(h) - 1) : h[i].time >= h[i + 1].time
                    /\ UNCHANGED DbVars]_vars

\* the page was given two events, the one stored later and a whole second
\* newer in front of the one stored first
C18_Witness ==
    /\ result[1].op = "specific_file"
    /\ result[1].kind = "page"
    /\ Len(result[1].hist) = 2
    /\ result[1].hist[1].time > result[1].hist[2].time
    /\ result[1].hist[1].id > result[1].hist[2].id

\* C19: in every state each File's obsid is the obsid of an Observation row.
\* A resolve call that commits a new File whose Observation was absent
\* commits with it the Observation made of the obsid, start_jd and lst of its
\* info; and a resolve call that finds no Observation and no start_jd in its
\* info ends there in an error and creates nothing.
C19_FilesReferToObservations ==
    /\ [](\A f \in files : \E o \in observations : o.obsid = f.obsid)
    /\ [][\A w \in AllWorkers :
            LET info == args[w].info
                absent == \A o \in observations : o.obsid # info.obsid
            IN  /\ ( /\ pc[w] = "gi_commit"
                     /\ CallEnds(w, "resolve")
                     /\ result'[w].kind = "File" ) =>
                       /\ result'[w].file.obsid = info.obsid
                       /\ result'[w].file \in files'
                       /\ absent =>
                            [obsid |-> info.obsid, start_jd |-> info.start_jd,
                             lst |-> info.lst] \in observations'
                /\ ( /\ pc[w] = "gi_stage"
                     /\ pc'[w] # "gi_stage"
                     /\ ~info.has_start_jd
                     /\ \A o \in observations \cup sess[w] :
                          o.obsid # info.obsid ) =>
                       /\ CallEnds(w, "resolve")
                       /\ result'[w].kind = "ServerError"
                       /\ result'[w].on = "start_jd"
                       /\ UNCHANGED <<DbVars, sess>>]_vars

\* a resolve call created a File together with its Observation, and another
\* resolve call failed for want of start_jd, leaving no Observation of its
\* obsid
C19_Witness ==
    \E w, v \in Workers :
      /\ result[w].op = "resolve" /\ result[w].created
      /\ result[w].file \in files
      /\ observations = {[obsid |-> result[w].file.obsid,
                          start_jd |-> 2459000, lst |-> 3]}
      /\ result[v].op = "resolve" /\ result[v].on = "start_jd"
      /\ FilesNamed(result[v].name) = {}

\* C20: the persisted events have pairwise distinct ids; and whatever other
\* callers do between a caller's lookup and its commit, the commit of a
\* create_file_event call succeeds and adds exactly one row, which is that
\* call's event under an id greater than every id in the log, while every
\* row already in the log stays.
C20_ConcurrentAppendsLoseNothing ==
    /\ [](\A e1, e2 \in events : e1.id = e2.id => e1 = e2)
    /\ [][\A w \in AllWorkers :
            (pc[w] = "cfe_commit" /\ pc'[w] # "cfe_commit") =>
              /\ CallEnds(w, "create_file_event")
              /\ result'[w].kind = "ok"
              /\ events \subseteq events'
              /\ \E e \in events' \ events :
                   /\ events' = events \cup {e}
                   /\ e.name = args[w].event.name
                   /\ e.time = args[w].event.time
                   /\ e.type = args[w].event.type
                   /\ e.payload = args[w].event.payload
                   /\ \A x \in events : x.id < e.id]_vars

\* two callers had events staged at once: the event built later was
\* committed first, and both calls succeeded and both events are in the log
C20_Witness ==
    /\ \A w \in Workers :
         result[w].op = "create_file_event" /\ result[w].kind = "ok"
    /\ \E e1, e2 \in events : e1.id < e2.id /\ e1.time > e2.time
    /\ Cardinality(events) = 2

====
